---- MODULE Spec2Model ----
(***************************************************************************)
(* Dose grid summation toolkit (main.py, data.py, dose.py, dicom_send.py). *)
(*                                                                         *)
(* The file system is a listing per patient directory.  A file name is a   *)
(* sequence of tokens, so that str.lower() and the substring test of the   *)
(* skip check are computed and not assumed.  A dose value is a rational    *)
(* num/den; all voxels of a grid share the denominator.  float32 rounding  *)
(* is not modelled: arithmetic is exact, and astype(uint16) truncates.     *)
(***************************************************************************)
EXTENDS Integers, Sequences, FiniteSets, TLC

VARIABLES
    fs,               \* patient directory -> listing (sequence of files)
    send,             \* args.send
    clock,            \* datetime.now(), in whole ticks
    run,              \* number of runs (batches or direct calls) started
    pc,               \* position of the single thread of control
    idx,              \* main.py: position in patient_dirs
    all_files,        \* main.py: all_files of the current patient
    rtdose_files,     \* argument of perform_summation
    patient_id,       \* argument of perform_summation
    dose_arrays,      \* perform_summation: dose_arrays
    datasets,         \* perform_summation: datasets
    summed_array,     \* perform_summation: summed_array
    new_ds,           \* perform_summation: new_ds, filename
    summed_dose_path, \* main.py: value returned by perform_summation
    log,              \* diagnostics printed by the current call
    outcome,          \* how the current call of perform_summation ended
    wrote,            \* path persisted by the current call, or NoPath
    sent,             \* file_list last handed to send_patient_files
    history,          \* one record per finished patient iteration / call
    call_args,        \* arguments a direct caller passes on every call
    probe,            \* input of a pure function under test
    result            \* output of a pure function under test

vars == <<fs, send, clock, run, pc, idx, all_files, rtdose_files, patient_id,
          dose_arrays, datasets, summed_array, new_ds, summed_dose_path, log,
          outcome, wrote, sent, history, call_args, probe, result>>

----------------------------------------------------------------------------
(* Bounds *)

MaxFiles == 3       \* dose files per patient directory
MaxRuns == 2        \* runs of the batch / calls of perform_summation
MaxVox == 3         \* voxels of a field handed to the quantizer
MaxDose == 4        \* largest voxel value handed to the quantizer
MaxDs == 3          \* descriptors handed to the geometry validator

PatientIds == <<"P1", "P2">>

----------------------------------------------------------------------------
(* Program constants *)

\* np.iinfo(np.uint16).max
MAX_FIXED_VALUE == 65535

GeometryFields ==
    <<"Rows", "Columns", "NumberOfFrames", "PixelSpacing",
      "ImageOrientationPatient", "ImagePositionPatient",
      "GridFrameOffsetVector">>

----------------------------------------------------------------------------
(* Values *)

NoPath == [dir |-> "", name |-> <<>>]
Path(d, n) == [dir |-> d, name |-> n]

NoError == [type |-> "None", what |-> "", number |-> 0, filename |-> <<>>]
Error(t, w, i, f) == [type |-> t, what |-> w, number |-> i, filename |-> f]

NoGrid == [shape |-> <<0, 0, 0>>, num |-> <<>>, den |-> 1]
NoDataset == [name |-> <<>>]

Min(S) == CHOOSE x \in S : \A y \in S : x <= y
Max(S) == CHOOSE x \in S : \A y \in S : x >= y
Range(s) == {s[i] : i \in DOMAIN s}

\* os.path.join(root, filename) for the entries of a listing
PathsOf(d, listing) == [i \in 1..Len(listing) |-> Path(d, listing[i].name)]

\* the file a path names
FileAt(fsys, path) ==
    CHOOSE f \in Range(fsys[path.dir]) : f.name = path.name

----------------------------------------------------------------------------
(* File names *)

\* str.lower(), token by token
Lower(tok) ==
    CASE tok = "Summed" -> "summed"
      [] tok = "SUMMED" -> "summed"
      [] tok = "RD_" -> "rd_"
      [] tok = "Dose_" -> "dose_"
      [] tok = "P1" -> "p1"
      [] tok = "P2" -> "p2"
      [] OTHER -> tok

\* a faulty variant: the containment test without lower()
HasMarkerCaseSensitive(name) == \E i \in DOMAIN name : name[i] = "summed"

\* "summed" in f.lower()
HasMarker(name) == \E i \in DOMAIN name : Lower(name[i]) = "summed"

\* a faulty variant: all() for any()
SummedExistsAll(listing) == \A i \in DOMAIN listing : HasMarker(listing[i].name)

\* any("summed" in f.lower() for f in os.listdir(output_dir))
SummedExists(listing) == \E i \in DOMAIN listing : HasMarker(listing[i].name)

\* a faulty variant: a file name without the marker
SummedFilenamePlain(pid, now) ==
    <<"RD_", "Total", "Dose_", pid, "_", ToString(now), ".dcm">>

\* f"RD_SummedDose_{patient_id}_{timestamp}.dcm"
SummedFilename(pid, now) ==
    <<"RD_", "Summed", "Dose_", pid, "_", ToString(now), ".dcm">>

----------------------------------------------------------------------------
(* Files on disk *)

Geometry(v) == [f \in Range(GeometryFields) |-> v]

\* one frame, one row, two columns
BaseGeometry == [Geometry(1) EXCEPT !["Columns"] = 2]

OneOverHundred == [n |-> 1, d |-> 100]

DoseFile(k, px, scaled, g) ==
    [name |-> <<"RD_", ToString(k), ".dcm">>, dicom |-> TRUE,
     cls |-> "FileDataset", Modality |-> "RTDOSE",
     SeriesDescription |-> "Dose", ContentDate |-> 0,
     hasPixels |-> TRUE, hasScaling |-> scaled, geom |-> g,
     pixels |-> px, scaling |-> OneOverHundred]

Good(k) == DoseFile(k, <<100, 50>>, TRUE, BaseGeometry)
Zero(k) == DoseFile(k, <<0, 0>>, TRUE, BaseGeometry)
Bad(k) == DoseFile(k, <<100, 50>>, FALSE, BaseGeometry)
Odd(k) ==
    DoseFile(k, <<100, 50>>, TRUE,
             [BaseGeometry EXCEPT !["ImagePositionPatient"] = 2])

PlanFile ==
    [name |-> <<"RP_", ".dcm">>, dicom |-> TRUE, cls |-> "FileDataset",
     Modality |-> "RTPLAN", SeriesDescription |-> "Plan", ContentDate |-> 0,
     hasPixels |-> FALSE, hasScaling |-> FALSE, geom |-> BaseGeometry,
     pixels |-> <<>>, scaling |-> OneOverHundred]

\* an entry that is no DICOM file and whose name carries the marker
NotesFile ==
    [name |-> <<"summed", "_notes.txt">>, dicom |-> FALSE, cls |-> "None",
     Modality |-> "", SeriesDescription |-> "", ContentDate |-> 0,
     hasPixels |-> FALSE, hasScaling |-> FALSE, geom |-> BaseGeometry,
     pixels |-> <<>>, scaling |-> OneOverHundred]

\* the dose files a patient directory may hold
DoseLists ==
    UNION {
        {[k \in 1..n |-> Good(k)]}
        \cup {[k \in 1..n |-> Zero(k)] : z \in {m \in {n} : m >= 1}}
        \cup {[k \in 1..n |-> IF k = j THEN Bad(k) ELSE Good(k)] : j \in 1..n}
        \cup {[k \in 1..n |-> IF k = j THEN Odd(k) ELSE Good(k)] : j \in 2..n}
        : n \in 0..MaxFiles}

Listings ==
    {<<PlanFile>> \o d \o m : d \in DoseLists, m \in {<<>>, <<NotesFile>>}}

----------------------------------------------------------------------------
(* data.py *)

\* pydicom.dcmread(filepath, stop_before_pixels=True) succeeded
Readable(f) == f.dicom

\* all_dicom_files
AllDicomFiles(d, listing) == PathsOf(d, SelectSeq(listing, Readable))

\* dcm.get("Modality", "").upper() in categorized_files; the modalities of the
\* model are written in capitals
IsRTDose(f) == Readable(f) /\ f.Modality = "RTDOSE"

\* categorized_files['RTDOSE']
RTDoseFiles(d, listing) == PathsOf(d, SelectSeq(listing, IsRTDose))

----------------------------------------------------------------------------
(* dose.py: load_dose_grid *)

\* the error load_dose_grid raises for a file, NoError when it returns
LoadError(f) ==
    IF ~f.dicom
    THEN Error("InvalidDicomError", "not a DICOM file", 0, f.name)
    ELSE IF f.cls # "FileDataset"
    THEN Error("TypeError", "Expected a FileDataset", 0, f.name)
    ELSE IF f.Modality # "RTDOSE"
    THEN Error("ValueError", "not an RTDOSE file", 0, f.name)
    ELSE IF ~f.hasPixels \/ ~f.hasScaling
    THEN Error("ValueError", "Missing required DICOM attributes", 0, f.name)
    ELSE NoError

\* ds.pixel_array.astype(np.float32) * float(ds.DoseGridScaling)
DoseGrid(f) ==
    [shape |-> <<f.geom["NumberOfFrames"], f.geom["Rows"], f.geom["Columns"]>>,
     num |-> [i \in DOMAIN f.pixels |-> f.pixels[i] * f.scaling.n],
     den |-> f.scaling.d]

----------------------------------------------------------------------------
(* dose.py: check_same_geometry *)

\* the condition of the if statement, for one ds against ref
Differs(ds, ref) ==
    \/ ds.geom["Rows"] # ref.geom["Rows"]
    \/ ds.geom["Columns"] # ref.geom["Columns"]
    \/ ds.geom["NumberOfFrames"] # ref.geom["NumberOfFrames"]
    \/ ds.geom["PixelSpacing"] # ref.geom["PixelSpacing"]
    \/ ds.geom["ImageOrientationPatient"] # ref.geom["ImageOrientationPatient"]
    \/ ds.geom["ImagePositionPatient"] # ref.geom["ImagePositionPatient"]
    \/ ds.geom["GridFrameOffsetVector"] # ref.geom["GridFrameOffsetVector"]

\* a faulty variant: the last descriptor that differs is reported
check_same_geometry_last(dss) ==
    LET bad == {i \in 2..Len(dss) : Differs(dss[i], dss[1])}
    IN IF bad = {} THEN NoError
       ELSE Error("ValueError", "Geometry mismatch in dose file", Max(bad),
                  dss[Max(bad)].name)

\* a faulty variant: nothing is compared
check_same_geometry_none(dss) == NoError

\* the error check_same_geometry raises, NoError when it returns.  The loop
\* index i counts from 1 at the second dataset; the message names i + 1, the
\* position of the dataset counted from 1, and ds.filename.
check_same_geometry(dss) ==
    LET bad == {i \in 2..Len(dss) : Differs(dss[i], dss[1])}
    IN IF bad = {} THEN NoError
       ELSE Error("ValueError", "Geometry mismatch in dose file", Min(bad),
                  dss[Min(bad)].name)

----------------------------------------------------------------------------
(* dose.py: sum_doses *)

AddGrids(a, b) ==
    IF a.den = b.den
    THEN [a EXCEPT !.num = [i \in DOMAIN a.num |-> a.num[i] + b.num[i]]]
    ELSE [a EXCEPT !.num = [i \in DOMAIN a.num |->
                               a.num[i] * b.den + b.num[i] * a.den],
                   !.den = a.den * b.den]

RECURSIVE sum_doses(_)
\* np.sum(dose_arrays, axis=0)
sum_doses(arrays) ==
    IF Len(arrays) = 1 THEN arrays[1]
    ELSE AddGrids(sum_doses(SubSeq(arrays, 1, Len(arrays) - 1)),
                  arrays[Len(arrays)])

----------------------------------------------------------------------------
(* dose.py: create_new_dose_dataset *)

\* np.max(summed_dose_array), in units of 1/den
Peak(field) == Max(Range(field.num))

\* (summed_dose_array / max_val * 65535).astype(np.uint16): the conversion
\* drops the fraction
Quantize(field) ==
    [i \in DOMAIN field.num |->
        (field.num[i] * MAX_FIXED_VALUE) \div Peak(field)]

\* max_val / np.iinfo(np.uint16).max
NewScaling(field) == [n |-> Peak(field), d |-> field.den * MAX_FIXED_VALUE]

\* the overrides of the deep copy; the generated UIDs are left out
NewDataset(reference_ds, field, buffer, pid, now) ==
    [reference_ds EXCEPT
        !.name = SummedFilename(pid, now),
        !.SeriesDescription = "Summed Dose",
        !.ContentDate = now,
        !.pixels = buffer,
        !.scaling = NewScaling(field),
        !.geom = [@ EXCEPT !["Rows"] = field.shape[2],
                           !["Columns"] = field.shape[3],
                           !["NumberOfFrames"] = field.shape[1]]]

\* a faulty variant: the zero test is missing; 0/0 is nan, which the conversion
\* turns into code 0
create_new_dose_dataset_unchecked(reference_ds, field, pid, now) ==
    [err |-> NoError,
     ds |-> NewDataset(reference_ds, field,
                       IF Peak(field) = 0 THEN [i \in DOMAIN field.num |-> 0]
                       ELSE Quantize(field), pid, now)]

\* err: the error raised, NoError on return; ds: new_ds with its filename
create_new_dose_dataset(reference_ds, field, pid, now) ==
    IF Peak(field) = 0
    THEN [err |-> Error("ValueError", "Summed dose grid is all zeros", 0, <<>>),
          ds |-> NoDataset]
    ELSE [err |-> NoError,
          ds |-> NewDataset(reference_ds, field, Quantize(field), pid, now)]

----------------------------------------------------------------------------
(* dose.py: perform_summation *)

ExceptionTypes == {"ValueError", "TypeError", "InvalidDicomError", "OSError"}

\* a faulty variant: except ValueError
CatchesValueError(t) == t = "ValueError"

\* except Exception
Catches(t) == t \in ExceptionTypes

SkipDiagnostic(pid) ==
    [text |-> "Summed dose already exists", patient |-> pid, file |-> <<>>,
     err |-> NoError]

\* f"  -> ERROR: Could not load {os.path.basename(file_path)}: {e}"
LoadDiagnostic(pid, path, e) ==
    [text |-> "Could not load", patient |-> "", file |-> path.name, err |-> e]

\* f"  -> ERROR: Failed to sum doses for patient {patient_id}: {e}"
FailDiagnostic(pid, e) ==
    [text |-> "Failed to sum doses", patient |-> pid, file |-> <<>>, err |-> e]

\* the value perform_summation hands back once the artifact is saved: the
\* function ends without a return statement
ReturnValue(out_path) == NoPath

InsertAt(listing, pos, f) ==
    SubSeq(listing, 1, pos - 1) \o <<f>> \o SubSeq(listing, pos, Len(listing))

\* the listing after a file is created or replaced; os.listdir and os.walk
\* give no order, so the new entry may stand anywhere
Stored(listing, pos, f) ==
    LET others == SelectSeq(listing, LAMBDA g : g.name # f.name)
    IN InsertAt(others, IF pos > Len(others) + 1 THEN Len(others) + 1 ELSE pos, f)

locals == <<dose_arrays, datasets, summed_array, new_ds>>
tests == <<call_args, probe, result>>

\* the function is left: normally, or by an exception no handler catches
Leave(o, diag, e, ret) ==
    /\ pc' = IF e.type = "None" \/ Catches(e.type) THEN "Returned" ELSE "Crashed"
    /\ outcome' = o
    /\ log' = log \o diag
    /\ summed_dose_path' = ret

\* entry of perform_summation
Enter(files, pid) ==
    /\ rtdose_files' = files
    /\ patient_id' = pid
    /\ dose_arrays' = <<>>
    /\ datasets' = <<>>
    /\ summed_array' = NoGrid
    /\ new_ds' = NoDataset
    /\ log' = <<>>
    /\ wrote' = NoPath
    /\ summed_dose_path' = NoPath

\* the length test and the skip test
Check ==
    /\ pc = "Checking"
    /\ IF Len(rtdose_files) <= 1
       THEN Leave("noop", <<>>, NoError, NoPath)
       ELSE IF SummedExists(fs[rtdose_files[1].dir])
       THEN Leave("skipped", <<SkipDiagnostic(patient_id)>>, NoError, NoPath)
       ELSE /\ pc' = "Loading"
            /\ UNCHANGED <<outcome, log, summed_dose_path>>
    /\ UNCHANGED <<fs, send, clock, run, idx, all_files, rtdose_files,
                   patient_id, locals, wrote, sent, history, tests>>

\* one iteration of the loading loop; after the last one `if not datasets`
\* is false, since at least two files were loaded
Load ==
    /\ pc = "Loading"
    /\ LET file_path == rtdose_files[Len(datasets) + 1]
           f == FileAt(fs, file_path)
           e == LoadError(f)
       IN IF e = NoError
          THEN /\ dose_arrays' = Append(dose_arrays, DoseGrid(f))
               /\ datasets' = Append(datasets, f)
               /\ pc' = IF Len(datasets) + 1 < Len(rtdose_files) THEN "Loading"
                        ELSE "Validating"
               /\ UNCHANGED <<outcome, log, summed_dose_path>>
          ELSE /\ Leave("aborted:load",
                        <<LoadDiagnostic(patient_id, file_path, e)>>, e, NoPath)
               /\ UNCHANGED <<dose_arrays, datasets>>
    /\ UNCHANGED <<fs, send, clock, run, idx, all_files, rtdose_files,
                   patient_id, summed_array, new_ds, wrote, sent, history,
                   tests>>

Validate ==
    /\ pc = "Validating"
    /\ LET e == check_same_geometry(datasets)
       IN IF e = NoError
          THEN /\ pc' = "Summing"
               /\ UNCHANGED <<outcome, log, summed_dose_path>>
          ELSE Leave("aborted:geometry", <<FailDiagnostic(patient_id, e)>>, e,
                     NoPath)
    /\ UNCHANGED <<fs, send, clock, run, idx, all_files, rtdose_files,
                   patient_id, locals, wrote, sent, history, tests>>

Sum ==
    /\ pc = "Summing"
    /\ summed_array' = sum_doses(dose_arrays)
    /\ pc' = "Building"
    /\ UNCHANGED <<fs, send, clock, run, idx, all_files, rtdose_files,
                   patient_id, dose_arrays, datasets, new_ds, summed_dose_path,
                   log, outcome, wrote, sent, history, tests>>

Build ==
    /\ pc = "Building"
    /\ LET r == create_new_dose_dataset(datasets[1], summed_array, patient_id,
                                        clock)
       IN IF r.err = NoError
          THEN /\ new_ds' = r.ds
               /\ pc' = "Writing"
               /\ UNCHANGED <<outcome, log, summed_dose_path>>
          ELSE /\ Leave("aborted:zero", <<FailDiagnostic(patient_id, r.err)>>,
                        r.err, NoPath)
               /\ UNCHANGED new_ds
    /\ UNCHANGED <<fs, send, clock, run, idx, all_files, rtdose_files,
                   patient_id, dose_arrays, datasets, summed_array, wrote, sent,
                   history, tests>>

WriteFailure == Error("OSError", "save_as failed", 0, <<>>)

\* what a failed write leaves behind: nothing, a file cut off in the pixel
\* data, or a file cut off in its header, which no longer reads as DICOM
Remains(ds, how) ==
    IF how = "truncated" THEN [ds EXCEPT !.hasPixels = FALSE]
    ELSE IF how = "unreadable" THEN [ds EXCEPT !.hasPixels = FALSE, !.dicom = FALSE]
    ELSE ds

\* new_ds.save_as(out_path): the file is written, or the write fails before
\* the file exists, or it fails part way
Write ==
    /\ pc = "Writing"
    /\ LET output_dir == rtdose_files[1].dir
           out_path == Path(output_dir, new_ds.name)
       IN \E how \in {"written", "refused", "truncated", "unreadable"} :
          \E pos \in 1..(Len(fs[output_dir]) + 1) :
             /\ how = "refused" => pos = 1
             /\ fs' = IF how = "refused" THEN fs
                      ELSE [fs EXCEPT ![output_dir] =
                               Stored(@, pos, Remains(new_ds, how))]
             /\ wrote' = IF how = "refused" THEN NoPath ELSE out_path
             /\ IF how = "written"
                THEN Leave("saved", <<>>, NoError, ReturnValue(out_path))
                ELSE Leave("aborted:write",
                           <<FailDiagnostic(patient_id, WriteFailure)>>,
                           WriteFailure, NoPath)
    /\ UNCHANGED <<send, clock, run, idx, all_files, rtdose_files, patient_id,
                   locals, sent, history, tests>>

----------------------------------------------------------------------------
(* main.py: process_patient_directories *)

Entry(r, pid, files, o, w, files_sent) ==
    [run |-> r, patient |-> pid, inputs |-> files, outcome |-> o, wrote |-> w,
     sent |-> files_sent]

\* os.scandir(args.root_dir); the loop starts unless no directory is found
StartBatch ==
    /\ pc = "Idle"
    /\ run < MaxRuns
    /\ run' = run + 1
    /\ clock' = clock + 1
    /\ idx' = 1
    /\ pc' = IF Len(PatientIds) = 0 THEN "Idle" ELSE "Extract"
    /\ UNCHANGED <<fs, send, all_files, rtdose_files, patient_id, locals,
                   summed_dose_path, log, outcome, wrote, sent, history, tests>>

\* extract_dicom_info and the test that guards the call of perform_summation
Extract ==
    /\ pc = "Extract"
    /\ LET patient_dir == PatientIds[idx]
       IN /\ all_files' = AllDicomFiles(patient_dir, fs[patient_dir])
          /\ Enter(RTDoseFiles(patient_dir, fs[patient_dir]), patient_dir)
          /\ pc' = IF Len(RTDoseFiles(patient_dir, fs[patient_dir])) > 1
                   THEN "Checking" ELSE "Send"
    /\ outcome' = "notcalled"
    /\ UNCHANGED <<fs, send, clock, run, idx, sent, history, tests>>

\* if summed_dose_path: all_files.append(summed_dose_path)
AppendPath ==
    /\ pc = "Returned"
    /\ all_files' = IF summed_dose_path # NoPath
                    THEN Append(all_files, summed_dose_path) ELSE all_files
    /\ pc' = "Send"
    /\ UNCHANGED <<fs, send, clock, run, idx, rtdose_files, patient_id, locals,
                   summed_dose_path, log, outcome, wrote, sent, history, tests>>

NotSent == <<NoPath>>

\* if args.send: send_patient_files(file_list=all_files, ...); then the next
\* patient
Send ==
    /\ pc = "Send"
    /\ sent' = IF send THEN all_files ELSE NotSent
    /\ history' = Append(history,
                         Entry(run, patient_id, rtdose_files, outcome, wrote,
                               IF send THEN all_files ELSE NotSent))
    /\ IF idx < Len(PatientIds)
       THEN idx' = idx + 1 /\ pc' = "Extract"
       ELSE idx' = 0 /\ pc' = "Idle"
    /\ UNCHANGED <<fs, send, clock, run, all_files, rtdose_files, patient_id,
                   locals, summed_dose_path, log, outcome, wrote, tests>>

Init ==
    /\ fs \in [Range(PatientIds) -> Listings]
    /\ send \in BOOLEAN
    /\ clock = 0
    /\ run = 0
    /\ pc = "Idle"
    /\ idx = 0
    /\ all_files = <<>>
    /\ rtdose_files = <<>>
    /\ patient_id = ""
    /\ dose_arrays = <<>>
    /\ datasets = <<>>
    /\ summed_array = NoGrid
    /\ new_ds = NoDataset
    /\ summed_dose_path = NoPath
    /\ log = <<>>
    /\ outcome = "notcalled"
    /\ wrote = NoPath
    /\ sent = NotSent
    /\ history = <<>>
    /\ call_args = [pid |-> "", files |-> <<>>]
    /\ probe = <<>>
    /\ result = NoError

Next ==
    \/ StartBatch
    \/ Extract
    \/ Check
    \/ Load
    \/ Validate
    \/ Sum
    \/ Build
    \/ Write
    \/ AppendPath
    \/ Send

Spec == Init /\ [][Next]_vars

----------------------------------------------------------------------------
(* perform_summation called directly, again and again with the same          *)
(* arguments                                                                 *)

Call ==
    /\ pc = "Idle"
    /\ run < MaxRuns
    /\ run' = run + 1
    /\ clock' = clock + 1
    /\ Enter(call_args.files, call_args.pid)
    /\ outcome' = "notcalled"
    /\ pc' = "Checking"
    /\ UNCHANGED <<fs, send, idx, all_files, sent, history, tests>>

CallReturn ==
    /\ pc = "Returned"
    /\ history' = Append(history,
                         Entry(run, patient_id, rtdose_files, outcome, wrote,
                               NotSent))
    /\ pc' = "Idle"
    /\ UNCHANGED <<fs, send, clock, run, idx, all_files, rtdose_files,
                   patient_id, locals, summed_dose_path, log, outcome, wrote,
                   sent, tests>>

\* the lists of paths a caller may pass: any run of entries of the directory
ArgLists(d, listing) ==
    {SubSeq(PathsOf(d, listing), a, b) :
        a \in 1..Len(listing), b \in 0..Len(listing)}

InitSum ==
    /\ \E p \in Range(PatientIds) :
       \E l \in Listings :
          /\ fs = [q \in Range(PatientIds) |-> IF q = p THEN l ELSE <<PlanFile>>]
          /\ \E files \in ArgLists(p, l) : call_args = [pid |-> p, files |-> files]
    /\ send = FALSE
    /\ clock = 0
    /\ run = 0
    /\ pc = "Idle"
    /\ idx = 0
    /\ all_files = <<>>
    /\ rtdose_files = <<>>
    /\ patient_id = ""
    /\ dose_arrays = <<>>
    /\ datasets = <<>>
    /\ summed_array = NoGrid
    /\ new_ds = NoDataset
    /\ summed_dose_path = NoPath
    /\ log = <<>>
    /\ outcome = "notcalled"
    /\ wrote = NoPath
    /\ sent = NotSent
    /\ history = <<>>
    /\ probe = <<>>
    /\ result = NoError

NextSum ==
    \/ Call
    \/ Check
    \/ Load
    \/ Validate
    \/ Sum
    \/ Build
    \/ Write
    \/ CallReturn

SpecSum == InitSum /\ [][NextSum]_vars

----------------------------------------------------------------------------
(* The quantizer and the geometry validator on their own *)

program == <<fs, send, clock, run, idx, all_files, rtdose_files, patient_id,
             locals, summed_dose_path, log, outcome, wrote, sent, history,
             call_args>>

InitPure ==
    /\ fs = [q \in Range(PatientIds) |-> <<PlanFile>>]
    /\ send = FALSE
    /\ clock = 0
    /\ run = 0
    /\ idx = 0
    /\ all_files = <<>>
    /\ rtdose_files = <<>>
    /\ patient_id = ""
    /\ dose_arrays = <<>>
    /\ datasets = <<>>
    /\ summed_array = NoGrid
    /\ new_ds = NoDataset
    /\ summed_dose_path = NoPath
    /\ log = <<>>
    /\ outcome = "notcalled"
    /\ wrote = NoPath
    /\ sent = NotSent
    /\ history = <<>>
    /\ call_args = [pid |-> "", files |-> <<>>]
    /\ result = NoError

\* non-negative summed fields of up to MaxVox voxels, in whole units
Fields ==
    UNION {{[shape |-> <<1, 1, n>>, num |-> v, den |-> 1] :
               v \in [1..n -> 0..MaxDose]} : n \in 1..MaxVox}

InitQuant ==
    /\ InitPure
    /\ pc = "Quantizing"
    /\ probe \in Fields

QuantizeField ==
    /\ pc = "Quantizing"
    /\ result' = create_new_dose_dataset(Good(1), probe, "P1", 1)
    /\ pc' = "Quantized"
    /\ UNCHANGED <<program, probe>>

NextQuant == QuantizeField

SpecQuant == InitQuant /\ [][NextQuant]_vars

\* the base descriptor and its departures in one field
Descriptors ==
    {Geometry(1)}
    \cup {[Geometry(1) EXCEPT ![GeometryFields[k]] = 2] : k \in DOMAIN GeometryFields}

DescriptorLists ==
    UNION {{[k \in 1..n |-> DoseFile(k, <<100, 50>>, TRUE, g[k])] :
               g \in [1..n -> Descriptors]} : n \in 1..MaxDs}

InitGeom ==
    /\ InitPure
    /\ pc = "Validating"
    /\ probe \in DescriptorLists

ValidateGeometry ==
    /\ pc = "Validating"
    /\ result' = check_same_geometry(probe)
    /\ pc' = "Validated"
    /\ UNCHANGED <<program, probe>>

NextGeom == ValidateGeometry

SpecGeom == InitGeom /\ [][NextGeom]_vars

----------------------------------------------------------------------------
(* Properties *)

Artifact(f) == f.SeriesDescription = "Summed Dose"

Aborted(o) ==
    o \in {"aborted:load", "aborted:geometry", "aborted:zero", "aborted:write"}

Loadable(f) ==
    /\ f.dicom
    /\ f.cls = "FileDataset"
    /\ f.Modality = "RTDOSE"
    /\ f.hasPixels
    /\ f.hasScaling

\* the files an artifact or a truncated file of the current call would be
CreatedNow(fsys, now) ==
    {f \in UNION {Range(fsys[d]) : d \in DOMAIN fsys} :
        Artifact(f) /\ f.ContentDate = now}

\* C1: whenever perform_summation persisted a new artifact for a patient, the
\* list handed to send_patient_files for that patient holds the artifact's
\* path; when no summation occurred the list holds no file created in that
\* run.
C1_PathSentIffSaved ==
    \A k \in DOMAIN history :
        LET h == history[k]
        IN h.sent # NotSent =>
              /\ h.outcome = "saved" => h.wrote \in Range(h.sent)
              /\ h.outcome # "saved" =>
                    \A q \in Range(h.sent) :
                        ~(Artifact(FileAt(fs, q))
                          /\ FileAt(fs, q).ContentDate = h.run)

----------------------------------------------------------------------------

\* at least two inputs, all loadable, of one geometry, not all zero
ValidInputs(files) ==
    /\ Len(files) >= 2
    /\ \A i \in DOMAIN files :
          /\ Loadable(FileAt(fs, files[i]))
          /\ FileAt(fs, files[i]).geom = FileAt(fs, files[1]).geom
    /\ \E i \in DOMAIN files :
          \E v \in DOMAIN FileAt(fs, files[i]).pixels :
              FileAt(fs, files[i]).pixels[v] > 0

Artifacts(d) == {i \in DOMAIN fs[d] : Artifact(fs[d][i])}

OnceAndSkippedAfter ==
    /\ history[1].outcome = "saved"
    /\ \A k \in 2..Len(history) :
          history[k].outcome = "skipped" /\ history[k].wrote = NoPath
    /\ Cardinality(Artifacts(call_args.pid)) = 1

----------------------------------------------------------------------------

RECURSIVE Total(_, _)
Total(grids, v) ==
    IF grids = <<>> THEN 0 ELSE Head(grids).num[v] + Total(Tail(grids), v)

\* the sum of the loaded grids, voxel by voxel, over the common denominator
IsSumOf(total, grids) ==
    /\ \A i \in DOMAIN grids : grids[i].den = total.den
    /\ \A v \in DOMAIN total.num : total.num[v] = Total(grids, v)

FullPipeline ==
    /\ pc = "Writing"
    /\ Len(datasets) = Len(rtdose_files)
    /\ Len(dose_arrays) = Len(rtdose_files)
    /\ \A i \in DOMAIN datasets :
          /\ datasets[i] = FileAt(fs, rtdose_files[i])
          /\ Loadable(datasets[i])
          /\ datasets[i].geom = datasets[1].geom
          /\ dose_arrays[i] = DoseGrid(datasets[i])
    /\ IsSumOf(summed_array, dose_arrays)
    /\ Peak(summed_array) > 0
    /\ new_ds # NoDataset
    /\ Artifact(new_ds)

\* C3: a step of perform_summation changes the file system only after every
\* input has loaded, the geometries agree, the sum is formed and the new
\* dataset is built; a call that ends aborted by a load error, a geometry
\* mismatch or a zero dose has written nothing.
C3_WriteOnlyAfterFullPipeline ==
    [][/\ fs' # fs => FullPipeline
       /\ outcome' \in {"aborted:load", "aborted:geometry", "aborted:zero"} =>
             /\ fs' = fs
             /\ wrote' = NoPath
             /\ CreatedNow(fs', clock') = {}]_vars

C3_Witness ==
    /\ pc = "Returned"
    /\ outcome = "saved"
    /\ wrote # NoPath
    /\ Len(datasets) >= 2
    /\ Artifact(FileAt(fs, wrote))

----------------------------------------------------------------------------

\* C4: no error of a patient's summation leaves the pipeline, and every
\* patient before the current one in the running batch has been processed:
\* its summation was attempted when it had more than one dose file.
C4_FailureIsolated ==
    /\ pc # "Crashed"
    /\ pc # "Idle" =>
          \A j \in 1..(idx - 1) :
              \E k \in DOMAIN history :
                  /\ history[k].run = run
                  /\ history[k].patient = PatientIds[j]
                  /\ Len(history[k].inputs) > 1 => history[k].outcome # "notcalled"
    /\ (pc = "Idle" /\ run > 0) =>
          \A j \in DOMAIN PatientIds :
              \E k \in DOMAIN history :
                  /\ history[k].run = run
                  /\ history[k].patient = PatientIds[j]
                  /\ Len(history[k].inputs) > 1 => history[k].outcome # "notcalled"

C4_Witness ==
    \E k \in DOMAIN history :
        /\ k + 1 \in DOMAIN history
        /\ history[k].outcome = "aborted:write"
        /\ history[k + 1].run = history[k].run
        /\ Aborted(history[k + 1].outcome)

----------------------------------------------------------------------------

Abs(x) == IF x < 0 THEN -x ELSE x

\* C5: for every non-negative field with a non-zero peak the largest code of
\* the buffer is 65535 and every voxel is reconstructed within half a step:
\* |buffer[i] * scale - field[i]| <= scale / 2, with scale = n/d and
\* field[i] = num[i]/den, cleared of denominators.
C5_RoundTrip ==
    (pc = "Quantized" /\ Peak(probe) # 0) =>
        /\ result.err = NoError
        /\ Max(Range(result.ds.pixels)) = MAX_FIXED_VALUE
        /\ \A i \in DOMAIN probe.num :
              2 * Abs(result.ds.pixels[i] * result.ds.scaling.n * probe.den
                      - probe.num[i] * result.ds.scaling.d)
                  <= result.ds.scaling.n * probe.den

----------------------------------------------------------------------------

AllEqual(dss) == \A i \in DOMAIN dss : dss[i].geom = dss[1].geom

FirstDiffering(dss) == Min({i \in DOMAIN dss : dss[i].geom # dss[1].geom})

\* the words of the error message
MessageWords(e) == {e.what} \cup Range(e.filename)

----------------------------------------------------------------------------

\* C7: whenever the peak of the summed field is 0, building the new dataset
\* fails with the zero-dose error, the call ends aborted and nothing is
\* persisted.
C7_ZeroDoseAborts ==
    (/\ pc \in {"Writing", "Returned"}
     /\ summed_array # NoGrid
     /\ Peak(summed_array) = 0)
        => /\ pc = "Returned"
           /\ outcome = "aborted:zero"
           /\ new_ds = NoDataset
           /\ wrote = NoPath
           /\ CreatedNow(fs, clock) = {}
           /\ log # <<>>
           /\ log[Len(log)].err.type = "ValueError"
           /\ log[Len(log)].err.what = "Summed dose grid is all zeros"

C7_Witness ==
    /\ pc = "Returned"
    /\ summed_array # NoGrid
    /\ Peak(summed_array) = 0
    /\ outcome = "aborted:zero"

----------------------------------------------------------------------------

MarkerIn(listing) == \E f \in Range(listing) : HasMarker(f.name)

Returns == pc # "Returned" /\ pc' = "Returned"

NothingDone ==
    /\ datasets' = <<>>
    /\ dose_arrays' = <<>>
    /\ wrote' = NoPath
    /\ fs' = fs

\* C8: a step of perform_summation loads an input or writes a file only when
\* at least two paths were passed and no entry of the directory of the first
\* path carries the marker; with fewer than two paths the call ends as a
\* no-op without a diagnostic, with the marker present it ends as skipped,
\* and in both cases nothing was loaded or written.
C8_CheckingGate ==
    [][/\ (pc = "Loading" \/ pc = "Writing" \/ fs' # fs) =>
             /\ Len(rtdose_files) >= 2
             /\ ~MarkerIn(fs[rtdose_files[1].dir])
       /\ (Returns /\ Len(rtdose_files) < 2) =>
             /\ outcome' = "noop"
             /\ log' = <<>>
             /\ NothingDone
       /\ (Returns /\ Len(rtdose_files) >= 2
             /\ MarkerIn(fs[rtdose_files[1].dir])) =>
             /\ outcome' = "skipped"
             /\ NothingDone]_vars

C8_Witness ==
    /\ pc = "Returned"
    /\ outcome = "skipped"
    /\ Len(rtdose_files) >= 2
    /\ MarkerIn(fs[rtdose_files[1].dir])
    /\ datasets = <<>>

C8_WitnessNoop ==
    /\ pc = "Returned"
    /\ outcome = "noop"
    /\ Len(rtdose_files) = 1

----------------------------------------------------------------------------

\* C9: every aborted outcome is caught and leaves a diagnostic tagged with
\* the patient's identifier.
C9_DiagnosticTagged ==
    /\ pc # "Crashed"
    /\ (pc = "Returned" /\ Aborted(outcome)) =>
          /\ log # <<>>
          /\ log[Len(log)].err # NoError
          /\ log[Len(log)].patient = patient_id

----------------------------------------------------------------------------

\* C10: no artifact of an earlier summation is among the inputs once loading
\* begins, and none is ever loaded, although discovery lists it as a dose
\* file.
C10_NoDoubleCounting ==
    /\ \A i \in DOMAIN datasets : ~Artifact(datasets[i])
    /\ pc \in {"Loading", "Validating", "Summing", "Building", "Writing"} =>
          \A q \in Range(rtdose_files) : ~Artifact(FileAt(fs, q))

C10_Witness ==
    /\ pc = "Returned"
    /\ run = 2
    /\ outcome = "skipped"
    /\ \E q \in Range(rtdose_files) :
          Artifact(FileAt(fs, q)) /\ Loadable(FileAt(fs, q))
    /\ NotesFile \notin Range(fs[patient_id])

====
